---------------------------- MODULE Spec2Model ----------------------------
(***************************************************************************)
(* A model of claude-yes (rust): the wrapper that runs the `claude` CLI on *)
(* a pseudo-terminal, answers its confirmation prompts and restarts it     *)
(* after a crash.                                                          *)
(*                                                                         *)
(* Text is a sequence of Unicode code points (a Rust `&str` seen through   *)
(* `.chars()`); String::len() is the UTF-8 byte length of that sequence.   *)
(***************************************************************************)
EXTENDS Integers, Sequences, FiniteSets, TLC

(***************************************************************************)
(* Bounds of the model.                                                    *)
(***************************************************************************)
\* Moves of the environment in one run: writes and exits of the child, key
\* events of the user, expiries of a timer.
MaxEvents == 3
\* Largest exit code of the child.
MaxExitCode == 1

(***************************************************************************)
(* Program constants.                                                      *)
(***************************************************************************)
\* claude_wrapper.rs:192  read_buffer = [0u8; 8192]
READ_BUFFER == 8192
\* claude_wrapper.rs:220  output_buffer.len() > 100
EVAL_THRESHOLD == 100
\* claude_wrapper.rs:281  output_buffer.len() > 10000
WINDOW_CAP == 10000
\* claude_wrapper.rs:282  output_buffer.chars().skip(5000)
WINDOW_SKIP == 5000
\* claude_wrapper.rs:127  mpsc::channel::<String>(100)
RESPONSE_CAPACITY == 100
\* claude_wrapper.rs:335  mpsc::channel::<Vec<u8>>(10)
STDIN_CAPACITY == 10
\* claude_wrapper.rs:430  sleep(Duration::from_millis(200))
SETTLE_MS == 200
\* idle_watcher.rs:33  sleep(Duration::from_secs(1))
TICK_MS == 1000
\* terminal_render.rs:3
MAX_LINES == 10000
\* terminal_render.rs:4
MAX_LINE_LENGTH == 4096

(***************************************************************************)
(* Text: the string literals of the program, as code points.               *)
(***************************************************************************)
\* "❯ 1. Yes"
SIG_YES_MENU ==
    <<10095, 32, 49, 46, 32, 89, 101, 115>>
\* "❯ 1. Dark mode✔"
SIG_DARK_MODE ==
    <<10095, 32, 49, 46, 32, 68, 97, 114, 107, 32, 109, 111, 100, 101, 10004>>
\* "Press Enter to continue…"
SIG_PRESS_ENTER ==
    <<80, 114, 101, 115, 115, 32, 69, 110, 116, 101, 114, 32, 116, 111, 32,
      99, 111, 110, 116, 105, 110, 117, 101, 8230>>
\* "trust this project"
SIG_TRUST_PROJECT ==
    <<116, 114, 117, 115, 116, 32, 116, 104, 105, 115, 32, 112, 114, 111,
      106, 101, 99, 116>>
\* "trust the files in this folder"
SIG_TRUST_FOLDER ==
    <<116, 114, 117, 115, 116, 32, 116, 104, 101, 32, 102, 105, 108, 101,
      115, 32, 105, 110, 32, 116, 104, 105, 115, 32, 102, 111, 108, 100,
      101, 114>>
\* "allow claude"
SIG_ALLOW_CLAUDE ==
    <<97, 108, 108, 111, 119, 32, 99, 108, 97, 117, 100, 101>>
\* "do you want to"
SIG_DO_YOU_WANT ==
    <<100, 111, 32, 121, 111, 117, 32, 119, 97, 110, 116, 32, 116, 111>>
\* "would you like"
SIG_WOULD_YOU_LIKE ==
    <<119, 111, 117, 108, 100, 32, 121, 111, 117, 32, 108, 105, 107, 101>>
\* "yes"
SIG_YES ==
    <<121, 101, 115>>
\* "no"
SIG_NO ==
    <<110, 111>>
\* "❯"
SIG_POINTER ==
    <<10095>>
\* "[y/n]"
SIG_YN_SQUARE ==
    <<91, 121, 47, 110, 93>>
\* "(y/n)"
SIG_YN_ROUND ==
    <<40, 121, 47, 110, 41>>
\* "No conversation found to continue"
NO_CONVERSATION ==
    <<78, 111, 32, 99, 111, 110, 118, 101, 114, 115, 97, 116, 105, 111, 110,
      32, 102, 111, 117, 110, 100, 32, 116, 111, 32, 99, 111, 110, 116, 105,
      110, 117, 101>>
\* "esc to interrupt"
MARK_ESC ==
    <<101, 115, 99, 32, 116, 111, 32, 105, 110, 116, 101, 114, 114, 117,
      112, 116>>
\* "to run in background"
MARK_BACKGROUND ==
    <<116, 111, 32, 114, 117, 110, 32, 105, 110, 32, 98, 97, 99, 107, 103,
      114, 111, 117, 110, 100>>
\* "y\n"
RESP_Y ==
    <<121, 10>>
\* "\r"
RESP_CR ==
    <<13>>
\* vec!["--continue", "continue"]
CONTINUE_ARGS ==
    <<"--continue", "continue">>

(***************************************************************************)
(* Text operations of the standard library, as the program uses them.      *)
(* Loops over a text are written as recursions that halve the range, so   *)
(* that their evaluation stays shallow.                                    *)
(***************************************************************************)
\* str::contains(pattern)
Contains(hay, pat) ==
    \E i \in 1..(Len(hay) - Len(pat) + 1) :
        hay[i] = pat[1] /\ SubSeq(hay, i, i + Len(pat) - 1) = pat

\* The UTF-8 length of one character.
Utf8Width(c) ==
    IF c < 128 THEN 1 ELSE IF c < 2048 THEN 2 ELSE IF c < 65536 THEN 3 ELSE 4

\* String::len(): the length in bytes, the sum of Utf8Width over the
\* characters: one byte for each, and one more for each character at or
\* above each of the three width limits.
ByteLen(tb) ==
    LET wide == {i \in 1..Len(tb) : Utf8Width(tb[i]) >= 2}
    IN  Len(tb) + Cardinality(wide)
                + Cardinality({i \in wide : Utf8Width(tb[i]) >= 3})
                + Cardinality({i \in wide : Utf8Width(tb[i]) >= 4})

\* text.len() > limit.  A character has one to four bytes, so the bytes are
\* counted only when the number of characters does not decide.
LenExceeds(tx, limit) ==
    /\ 4 * Len(tx) > limit
    /\ (Len(tx) > limit \/ ByteLen(tx) > limit)

\* char::to_lowercase on the characters the model uses (ASCII letters fold,
\* the three non-ASCII glyphs have no case).
LowerChar(c) ==
    IF c >= 65 /\ c <= 90 THEN c + 32 ELSE c

\* str::to_lowercase()
ToLowercase(tl) ==
    [i \in 1..Len(tl) |-> LowerChar(tl[i])]

\* char::is_control(): the Cc category.
IsControl(c) ==
    c <= 31 \/ (c >= 127 /\ c <= 159)

\* text.chars().skip(n).collect()
SkipChars(tk, n) ==
    IF n >= Len(tk) THEN <<>> ELSE SubSeq(tk, n + 1, Len(tk))

(***************************************************************************)
(* UTF-8, as the standard library encodes and validates it.  Bytes are     *)
(* numbers 0..255.                                                         *)
(***************************************************************************)
\* char::encode_utf8
Utf8Bytes(c) ==
    IF c < 128 THEN <<c>>
    ELSE IF c < 2048 THEN <<192 + (c \div 64), 128 + (c % 64)>>
    ELSE IF c < 65536
    THEN <<224 + (c \div 4096), 128 + ((c \div 64) % 64), 128 + (c % 64)>>
    ELSE <<240 + (c \div 262144), 128 + ((c \div 4096) % 64),
           128 + ((c \div 64) % 64), 128 + (c % 64)>>

\* str::as_bytes: the bytes a write of the text puts into the terminal.
Encode(text) ==
    LET RECURSIVE EncodeRange(_, _)
        EncodeRange(lo, hi) ==
            IF lo > hi THEN <<>>
            ELSE IF lo = hi THEN Utf8Bytes(text[lo])
            ELSE LET mid == (lo + hi) \div 2
                 IN  EncodeRange(lo, mid) \o EncodeRange(mid + 1, hi)
    IN  EncodeRange(1, Len(text))

\* The length of the well-formed character that begins at byte i, as
\* core::str::from_utf8 validates it (no overlong forms, no surrogates,
\* nothing above U+10FFFF); 0 when the bytes from i on do not begin with a
\* whole well-formed character.
CharLenAt(bs, i) ==
    LET b == bs[i]
        cont(k, lo, hi) ==
            i + k <= Len(bs) /\ bs[i + k] >= lo /\ bs[i + k] <= hi
    IN  IF b < 128 THEN 1
        ELSE IF b >= 194 /\ b <= 223
        THEN (IF cont(1, 128, 191) THEN 2 ELSE 0)
        ELSE IF b >= 224 /\ b <= 239
        THEN (IF /\ cont(1, IF b = 224 THEN 160 ELSE 128,
                            IF b = 237 THEN 159 ELSE 191)
                 /\ cont(2, 128, 191)
              THEN 3 ELSE 0)
        ELSE IF b >= 240 /\ b <= 244
        THEN (IF /\ cont(1, IF b = 240 THEN 144 ELSE 128,
                            IF b = 244 THEN 143 ELSE 191)
                 /\ cont(2, 128, 191)
                 /\ cont(3, 128, 191)
              THEN 4 ELSE 0)
        ELSE 0

\* String::from_utf8(bytes): the number of bytes at the front that are whole
\* well-formed characters; Len(bs) when the result is Ok, else
\* Utf8Error::valid_up_to.  The validation stops at the first byte that
\* neither begins a well-formed character nor continues the one begun by
\* one of the three bytes before it.
valid_up_to(bs) ==
    LET begins(i) == CharLenAt(bs, i) > 0
        continues(i) ==
            \E p \in (i - 3)..(i - 1) :
                p >= 1 /\ bs[p] >= 192 /\ i < p + CharLenAt(bs, p)
        bad == {i \in 1..Len(bs) : ~begins(i) /\ ~continues(i)}
    IN  IF bad = {} THEN Len(bs)
        ELSE (CHOOSE m \in bad : \A x \in bad : m <= x) - 1

\* A decoding that takes the first byte for the character.
CodePointOfFirstByte(bs, i) ==
    bs[i]

\* The character whose first byte is byte i of well-formed bytes.
CodePointAt(bs, i) ==
    IF bs[i] < 128 THEN bs[i]
    ELSE IF bs[i] < 224 THEN (bs[i] - 192) * 64 + (bs[i + 1] - 128)
    ELSE IF bs[i] < 240
    THEN (bs[i] - 224) * 4096 + (bs[i + 1] - 128) * 64 + (bs[i + 2] - 128)
    ELSE (bs[i] - 240) * 262144 + (bs[i + 1] - 128) * 4096
         + (bs[i + 2] - 128) * 64 + (bs[i + 3] - 128)

\* A decoder that stops after the first character.
DecodeFirstChar(bs, n) ==
    IF n = 0 THEN <<>> ELSE <<CodePointAt(bs, 1)>>

\* The text of the first n bytes, which are well-formed: the Ok value of
\* String::from_utf8, and String::from_utf8_lossy of a valid prefix (which
\* has nothing to replace).
Decode(bs, n) ==
    LET RECURSIVE DecodeRange(_, _)
        DecodeRange(lo, hi) ==
            IF lo > hi THEN <<>>
            ELSE IF lo = hi
            THEN (IF bs[lo] >= 128 /\ bs[lo] <= 191 THEN <<>>
                  ELSE <<CodePointAt(bs, lo)>>)
            ELSE LET mid == (lo + hi) \div 2
                 IN  DecodeRange(lo, mid) \o DecodeRange(mid + 1, hi)
    IN  DecodeRange(1, n)

(***************************************************************************)
(* utils.rs: remove_control_characters.  The regex is                      *)
(*   \x1B\[[0-9;]*[a-zA-Z] | [\x00-\x1F\x7F]                               *)
(* and replace_all deletes its leftmost-first matches.                     *)
(***************************************************************************)
IsCsiParam(c) ==
    (c >= 48 /\ c <= 57) \/ c = 59

IsAsciiLetter(c) ==
    (c >= 65 /\ c <= 90) \/ (c >= 97 /\ c <= 122)

\* The number of [0-9;] characters from position i on.
RECURSIVE ParamRun(_, _)
ParamRun(tp, i) ==
    IF i <= Len(tp) /\ IsCsiParam(tp[i]) THEN 1 + ParamRun(tp, i + 1) ELSE 0

\* The length of the escape sequence that starts at position i; 0 when none
\* starts there.
CsiLen(tc, i) ==
    IF i + 2 <= Len(tc) /\ tc[i] = 27 /\ tc[i + 1] = 91
    THEN LET k == ParamRun(tc, i + 2)
         IN  IF i + 2 + k <= Len(tc) /\ IsAsciiLetter(tc[i + 2 + k])
             THEN 3 + k
             ELSE 0
    ELSE 0

\* The class without DEL.
IsRegexControlC0(c) ==
    c <= 31

\* [\x00-\x1F\x7F]
IsRegexControl(c) ==
    c <= 31 \/ c = 127

\* Position i lies in a match of the regex.  An escape sequence holds no
\* ESC after its first character, so no match can begin inside another: every
\* ESC begins a match (the sequence if there is one, else the ESC alone), and
\* the leftmost-first scan deletes exactly the control characters and the
\* escape sequences that begin at an ESC.
CsiStarts(ts) ==
    {p \in 1..Len(ts) : ts[p] = 27 /\ CsiLen(ts, p) > 0}

InMatch(tm, starts, i) ==
    \/ IsRegexControl(tm[i])
    \/ \E p \in starts : p < i /\ i < p + CsiLen(tm, p)

\* The characters lo..hi that lie in no match.
RECURSIVE Unmatched(_, _, _, _)
Unmatched(tr, starts, lo, hi) ==
    IF lo > hi THEN <<>>
    ELSE IF lo = hi THEN (IF InMatch(tr, starts, lo) THEN <<>> ELSE <<tr[lo]>>)
    ELSE LET mid == (lo + hi) \div 2
         IN  Unmatched(tr, starts, lo, mid) \o Unmatched(tr, starts, mid + 1, hi)

\* regex.replace_all(text, "")
remove_control_characters(text) ==
    CHOOSE out \in {Unmatched(text, starts, 1, Len(text)) :
                       starts \in {CsiStarts(text)}} : TRUE

(***************************************************************************)
(* terminal_render.rs: TerminalRender.  A render is a record               *)
(* [lines, current_line].                                                  *)
(***************************************************************************)
\* TerminalRender::new
NewRender ==
    [lines |-> <<>>, current_line |-> <<>>]

\* A push_line that never evicts.
push_line_unbounded(rp) ==
    Append(rp.lines, rp.current_line)

\* TerminalRender::push_line: the lines after committing current_line.
push_line(rp) ==
    IF Len(rp.lines) >= MAX_LINES
    THEN Append(Tail(rp.lines), rp.current_line)
    ELSE Append(rp.lines, rp.current_line)

\* A pop that removes the first character.
PopFirstChar(line) ==
    IF line = <<>> THEN <<>> ELSE Tail(line)

\* String::pop
PopChar(line) ==
    IF line = <<>> THEN <<>> ELSE SubSeq(line, 1, Len(line) - 1)

\* One iteration of the loop of TerminalRender::write.
WriteChar(rc, ch) ==
    IF ch = 10 THEN [lines |-> push_line(rc), current_line |-> <<>>]
    ELSE IF ch = 13 THEN [rc EXCEPT !.current_line = <<>>]
    ELSE IF ch = 8 \/ ch = 127 THEN [rc EXCEPT !.current_line = PopChar(@)]
    ELSE IF IsControl(ch) THEN rc
    ELSE LET pushed == [rc EXCEPT !.current_line = Append(@, ch)]
         IN  IF LenExceeds(pushed.current_line, MAX_LINE_LENGTH)
             THEN [lines |-> push_line(pushed), current_line |-> <<>>]
             ELSE pushed

\* The render after the characters lo..hi of the text were consumed in order.
RECURSIVE WriteRange(_, _, _, _)
WriteRange(r0, t0, lo, hi) ==
    IF lo > hi THEN r0
    ELSE IF lo = hi THEN WriteChar(r0, t0[lo])
    ELSE LET mid == (lo + hi) \div 2
         IN  CHOOSE done \in {WriteRange(half, t0, mid + 1, hi) :
                                 half \in {WriteRange(r0, t0, lo, mid)}} : TRUE

\* A write to a render that starts empty.
write_to_new_render(r, text) ==
    WriteRange(NewRender, text, 1, Len(text))

\* TerminalRender::write
write(r, text) ==
    WriteRange(r, text, 1, Len(text))

\* The lines lo..hi, each followed by a newline.
RECURSIVE JoinLines(_, _, _)
JoinLines(ls, lo, hi) ==
    IF lo > hi THEN <<>>
    ELSE IF lo = hi THEN ls[lo] \o <<10>>
    ELSE LET mid == (lo + hi) \div 2
         IN  JoinLines(ls, lo, mid) \o JoinLines(ls, mid + 1, hi)

\* TerminalRender::render
render(rr) ==
    JoinLines(rr.lines, 1, Len(rr.lines)) \o rr.current_line

(***************************************************************************)
(* claude_wrapper.rs: the prompt detector inside the output reader.        *)
(***************************************************************************)
\* The trigger without its newline test.
EvalTriggeredBySizeOnly(text, window) ==
    LenExceeds(window, EVAL_THRESHOLD)

\* The trigger of an evaluation pass: the chunk holds a newline, or the
\* window is longer than 100 bytes.
EvalTriggered(text, window) ==
    Contains(text, <<10>>) \/ LenExceeds(window, EVAL_THRESHOLD)

\* The disjunction of prompt signatures.
IsPrompt(clean_text, lower) ==
    \/ Contains(clean_text, SIG_YES_MENU)
    \/ Contains(clean_text, SIG_DARK_MODE)
    \/ Contains(clean_text, SIG_PRESS_ENTER)
    \/ Contains(lower, SIG_TRUST_PROJECT)
    \/ Contains(lower, SIG_TRUST_FOLDER)
    \/ Contains(lower, SIG_ALLOW_CLAUDE)
    \/ Contains(lower, SIG_DO_YOU_WANT)
    \/ Contains(lower, SIG_WOULD_YOU_LIKE)
    \/ (Contains(lower, SIG_YES) /\ Contains(lower, SIG_NO)
        /\ Contains(clean_text, SIG_POINTER))
    \/ Contains(clean_text, SIG_YN_SQUARE)
    \/ Contains(clean_text, SIG_YN_ROUND)

\* The response with its two branches exchanged.
ResponseForSwapped(lower) ==
    IF Contains(lower, SIG_YN_SQUARE) \/ Contains(lower, SIG_YN_ROUND)
    THEN RESP_CR
    ELSE RESP_Y

\* The response to a detected prompt.
ResponseFor(lower) ==
    IF Contains(lower, SIG_YN_SQUARE) \/ Contains(lower, SIG_YN_ROUND)
    THEN RESP_Y
    ELSE RESP_CR

\* A try_send on a channel without a capacity.
TrySendUnbounded(queue, rx_open, capacity) ==
    IF ~rx_open THEN "closed" ELSE "ok"

\* Sender::try_send on a channel of the given capacity.
TrySend(queue, rx_open, capacity) ==
    IF ~rx_open THEN "closed"
    ELSE IF Len(queue) >= capacity THEN "full"
    ELSE "ok"

\* A sentinel test that looks only at the beginning of the window.
HasNoConversationAtStart(clean_text) ==
    /\ Len(clean_text) >= Len(NO_CONVERSATION)
    /\ SubSeq(clean_text, 1, Len(NO_CONVERSATION)) = NO_CONVERSATION

\* The sentinel test of an evaluation pass.
HasNoConversation(clean_text) ==
    Contains(clean_text, NO_CONVERSATION)

\* "Keep buffer size reasonable".
TruncateWindow(window) ==
    IF LenExceeds(window, WINDOW_CAP) THEN SkipChars(window, WINDOW_SKIP) ELSE window

\* The test of the idle callback.
StillWorking(shown) ==
    Contains(shown, MARK_ESC) \/ Contains(shown, MARK_BACKGROUND)

\* The idle callback without its test of the markers.
on_idle_unconditional(ri) ==
    TRUE

\* The idle callback the supervisor gives to IdleWatcher::watch.
on_idle(ri) ==
    ~StillWorking(render(ri))

(***************************************************************************)
(* What the child writes in the model, and what the user types.            *)
(***************************************************************************)
\* "Do you want to proceed? ❯ 1. Yes"
TXT_PROCEED ==
    <<68, 111, 32, 121, 111, 117, 32, 119, 97, 110, 116, 32, 116, 111, 32,
      112, 114, 111, 99, 101, 101, 100, 63, 32, 10095, 32, 49, 46, 32, 89,
      101, 115>>
\* "Overwrite file? (y/n)"
TXT_OVERWRITE ==
    <<79, 118, 101, 114, 119, 114, 105, 116, 101, 32, 102, 105, 108, 101,
      63, 32, 40, 121, 47, 110, 41>>
\* "Thinking (esc to interrupt)"
TXT_WORKING ==
    <<84, 104, 105, 110, 107, 105, 110, 103, 32, 40, 101, 115, 99, 32, 116,
      111, 32, 105, 110, 116, 101, 114, 114, 117, 112, 116, 41>>
\* "ok"
TXT_OK ==
    <<111, 107>>
\* "\n"
NEWLINE ==
    <<10>>

\* The writes of the child in a supervised run: a prompt, the sentinel
\* phrase.
ChildWrites ==
    {TXT_PROCEED \o NEWLINE, NO_CONVERSATION \o NEWLINE}

\* The writes of the child in a run with an idle timeout: a still-working
\* marker, the sentinel phrase.
IdleWrites ==
    {TXT_WORKING \o NEWLINE, NO_CONVERSATION \o NEWLINE}

\* The key events of the user: the character 'a', Enter, and the
\* end-of-input chord.
KeyEvents ==
    {"a", "enter", "ctrl-d"}

\* The bytes the key thread makes of a key event.
KeyBytes(k) ==
    IF k = "a" THEN <<97>> ELSE IF k = "enter" THEN <<13>> ELSE <<>>

\* The attempts of a run: each but the last ends with an exit of the child.
Attempts == 1..MaxEvents

\* Option::None of exit_code and of exit_on_idle.
None == -1

(***************************************************************************)
(* The state.                                                              *)
(***************************************************************************)
VARIABLES
    \* Config
    continue_on_crash, exit_on_idle, claude_args,
    \* run_claude_process: its position, its result, the attempt it is in
    pc, exit_code, attempt,
    \* the child of each attempt and the bytes it wrote that nobody has read
    child, pty,
    \* the reader thread of each attempt (spawn_blocking)
    reader,
    \* the shared objects of the wrapper
    terminal_render, is_ready, read_held, notify_calls, last_activity,
    error_no_conversation,
    \* the idle-watch task of each attempt (tokio::spawn)
    monitor,
    \* process_input_with_responses and its channels, for each attempt
    mux, response_q, response_rx, response_tx, stdin_q, stdin_rx, key_thread,
    \* the clock, in milliseconds
    now,
    \* history: the arguments of every Start, the number of exit statuses
    \* evaluated, all the text the child wrote, the last pass of the read
    \* loop, all the text the reader decoded and passed on, what was written
    \* to the child's input, the items thrown away unwritten, the moves of
    \* the environment so far, the callback calls of each idle-watch task
    start_log, evals, child_out, last_pass, dispatched, child_in, discarded,
    n_events, idle_calls

config_vars == <<continue_on_crash, exit_on_idle>>
sup_vars == <<claude_args, pc, exit_code, attempt, start_log, evals>>
child_vars == <<child, pty, child_out>>
reader_vars == <<reader, terminal_render, error_no_conversation, last_pass,
                 dispatched>>
ready_vars == <<is_ready, read_held, notify_calls>>
idle_vars == <<monitor, last_activity, idle_calls>>
mux_vars == <<mux, response_q, response_rx, response_tx, stdin_q, stdin_rx,
              key_thread, child_in, discarded, n_events>>
vars == <<config_vars, sup_vars, child_vars, reader_vars, ready_vars,
          idle_vars, mux_vars, now>>

NoPass ==
    [text |-> <<>>, window |-> <<>>, evaluated |-> FALSE, send |-> "none",
     sent |-> <<>>, rx_open |-> FALSE, queued |-> 0, attempt |-> 0,
     carry |-> <<>>]

IdleMux ==
    [pc |-> "unpolled", kind |-> "none", item |-> <<>>, snapshot |-> 0,
     wake |-> 0, dequeued_at |-> 0, gate_at |-> 0]

\* ClaudeWrapper::new with a Config; nothing is spawned yet.
Init ==
    /\ continue_on_crash \in BOOLEAN
    /\ exit_on_idle \in {None, TICK_MS}
    /\ claude_args = <<"hello">>
    /\ pc = "start"
    /\ exit_code = None
    /\ attempt = 0
    /\ child = [s \in Attempts |-> [st |-> "none", code |-> 0]]
    /\ pty = [s \in Attempts |-> <<>>]
    /\ reader = [s \in Attempts |-> [pc |-> "none", incomplete_utf8 |-> <<>>,
                                     output_buffer |-> <<>>]]
    /\ terminal_render = NewRender
    /\ is_ready = FALSE
    /\ read_held = FALSE
    /\ notify_calls = 0
    /\ last_activity = 0
    /\ error_no_conversation = FALSE
    /\ monitor = [s \in Attempts |-> [pc |-> "none", wake |-> 0]]
    /\ mux = IdleMux
    /\ response_q = [s \in Attempts |-> <<>>]
    /\ response_rx = [s \in Attempts |-> FALSE]
    /\ response_tx = [s \in Attempts |-> FALSE]
    /\ stdin_q = [s \in Attempts |-> <<>>]
    /\ stdin_rx = [s \in Attempts |-> FALSE]
    /\ key_thread = [s \in Attempts |-> "none"]
    /\ now = 0
    /\ start_log = <<>>
    /\ evals = 0
    /\ child_out = <<>>
    /\ last_pass = NoPass
    /\ dispatched = <<>>
    /\ child_in = <<>>
    /\ discarded = 0
    /\ n_events = 0
    /\ idle_calls = [s \in Attempts |-> 0]

\* The wrapper process lives until run returns (main then calls exit).
Alive ==
    pc \notin {"done", "error"}

(***************************************************************************)
(* run_claude_process: the supervisor loop.                                *)
(***************************************************************************)
\* The head of the loop body: the command is built from claude_args, the
\* pseudo-terminal opened, the child spawned, the idle-watch task spawned and
\* the response channel created.
Start ==
    /\ pc = "start"
    /\ attempt < MaxEvents
    /\ LET a == attempt + 1 IN
       /\ attempt' = a
       /\ start_log' = Append(start_log, claude_args)
       /\ child' = [child EXCEPT ![a] = [st |-> "running", code |-> 0]]
       /\ monitor' = IF exit_on_idle # None
                     THEN [monitor EXCEPT ![a] = [pc |-> "sleep", wake |-> now + TICK_MS]]
                     ELSE monitor
       /\ response_q' = [response_q EXCEPT ![a] = <<>>]
       /\ response_rx' = [response_rx EXCEPT ![a] = TRUE]
       /\ response_tx' = [response_tx EXCEPT ![a] = TRUE]
       /\ mux' = IdleMux
    /\ pc' = "select"
    /\ UNCHANGED <<config_vars, claude_args, exit_code, evals, pty, child_out,
                   reader_vars, ready_vars, last_activity,
                   idle_calls, stdin_q, stdin_rx, key_thread, child_in,
                   discarded, n_events, now>>

\* A failed setup that goes round the loop again.
StartFailRetried ==
    /\ pc = "start"
    /\ attempt < MaxEvents
    /\ start_log' = Append(start_log, claude_args)
    /\ pc' = "start"
    /\ UNCHANGED <<config_vars, claude_args, exit_code, attempt, evals,
                   child_vars, reader_vars, ready_vars, idle_vars, mux_vars, now>>

\* openpty, spawn_command, try_clone_reader or take_writer fails: the `?`
\* returns the error from run_claude_process.
StartFail ==
    /\ pc = "start"
    /\ attempt < MaxEvents
    /\ start_log' = Append(start_log, claude_args)
    /\ pc' = "error"
    /\ UNCHANGED <<config_vars, claude_args, exit_code, attempt, evals,
                   child_vars, reader_vars, ready_vars, idle_vars, mux_vars, now>>

\* process_output_with_responses, polled: it hands the read loop to
\* spawn_blocking, drops the JoinHandle and returns Ok(()) at once.
process_output_with_responses ==
    /\ reader' = [reader EXCEPT ![attempt] = [pc |-> "read",
                                              incomplete_utf8 |-> <<>>,
                                              output_buffer |-> <<>>]]
    /\ pc' = "selected"

\* select! polls output_future first: it is ready, input_future is never polled.
PollOutputFirst ==
    /\ pc = "select"
    /\ process_output_with_responses
    /\ UNCHANGED <<config_vars, claude_args, exit_code, attempt, start_log,
                   evals, child_vars, terminal_render, error_no_conversation,
                   last_pass, dispatched, ready_vars, idle_vars, mux_vars, now>>

\* select! polls input_future first: process_input_with_responses creates the
\* keystroke channel, spawns the key thread and enters its loop.
PollInputFirst ==
    /\ pc = "select"
    /\ pc' = "poll_input"
    /\ mux' = [mux EXCEPT !.pc = "select"]
    /\ stdin_q' = [stdin_q EXCEPT ![attempt] = <<>>]
    /\ stdin_rx' = [stdin_rx EXCEPT ![attempt] = TRUE]
    /\ key_thread' = [key_thread EXCEPT ![attempt] = "running"]
    /\ UNCHANGED <<config_vars, claude_args, exit_code, attempt, start_log,
                   evals, child_vars, reader_vars, ready_vars, idle_vars,
                   response_q, response_rx, response_tx, child_in, discarded,
                   n_events, now>>

\* Both receivers of the select! inside the multiplexer are closed and empty.
MuxSourcesClosed ==
    /\ response_q[attempt] = <<>> /\ ~response_tx[attempt]
    /\ stdin_q[attempt] = <<>> /\ key_thread[attempt] = "ended"

\* The poll of input_future returns Pending.
MuxPending ==
    \/ /\ mux.pc = "select"
       /\ response_q[attempt] = <<>>
       /\ stdin_q[attempt] = <<>>
       /\ ~MuxSourcesClosed
    \/ mux.pc = "sleep" /\ now < mux.wake
    \/ mux.pc = "w_wait" /\ notify_calls = mux.snapshot

\* input_future returned Pending; select! polls output_future, which is ready.
PollOutputSecond ==
    /\ pc = "poll_input"
    /\ MuxPending
    /\ process_output_with_responses
    /\ UNCHANGED <<config_vars, claude_args, exit_code, attempt, start_log,
                   evals, child_vars, terminal_render, error_no_conversation,
                   last_pass, dispatched, ready_vars, idle_vars, mux_vars, now>>

\* What is lost when input_future is dropped: the queued responses and
\* keystrokes and the item the multiplexer holds.
Pending(a) ==
    Len(response_q[a]) + Len(stdin_q[a]) + (IF mux.kind # "none" THEN 1 ELSE 0)

\* select! returns through the output branch: input_future is dropped, and
\* with it both receivers.
SelectReturn ==
    /\ pc = "selected"
    /\ pc' = "wait"
    /\ discarded' = discarded + Pending(attempt)
    /\ mux' = [IdleMux EXCEPT !.pc = "dropped"]
    /\ response_q' = [response_q EXCEPT ![attempt] = <<>>]
    /\ response_rx' = [response_rx EXCEPT ![attempt] = FALSE]
    /\ stdin_q' = [stdin_q EXCEPT ![attempt] = <<>>]
    /\ stdin_rx' = [stdin_rx EXCEPT ![attempt] = FALSE]
    /\ UNCHANGED <<config_vars, claude_args, exit_code, attempt, start_log,
                   evals, child_vars, reader_vars, ready_vars, idle_vars,
                   response_tx, key_thread, child_in, n_events, now>>

\* input_future completed with an error (a failed write or flush): the `?` of
\* the input branch returns it from run_claude_process.
InputFailed ==
    /\ pc = "poll_input"
    /\ mux.pc = "failed"
    /\ pc' = "error"
    /\ UNCHANGED <<config_vars, claude_args, exit_code, attempt, start_log,
                   evals, child_vars, reader_vars, ready_vars, idle_vars,
                   mux_vars, now>>

\* input_future completed with Ok(()): select! returns through the input
\* branch and output_future is dropped without having been polled.
InputDone ==
    /\ pc = "poll_input"
    /\ mux.pc = "done"
    /\ pc' = "wait"
    /\ response_tx' = [response_tx EXCEPT ![attempt] = FALSE]
    /\ UNCHANGED <<config_vars, claude_args, exit_code, attempt, start_log,
                   evals, child_vars, reader_vars, ready_vars, idle_vars, mux,
                   response_q, response_rx, stdin_q, stdin_rx, key_thread,
                   child_in, discarded, n_events, now>>

\* A success test that takes every code that is not negative.
SuccessNonNegative(code) ==
    code >= 0

\* ExitStatus::success
Success(code) ==
    code = 0

\* The decision that restarts with the arguments it was given.
AfterExitKeepArgs(code, args) ==
    IF Success(code)
    THEN [next |-> "done", exit_code |-> 0, args |-> args]
    ELSE IF continue_on_crash
         THEN IF error_no_conversation
              THEN [next |-> "done", exit_code |-> code, args |-> args]
              ELSE [next |-> "start", exit_code |-> exit_code, args |-> args]
         ELSE [next |-> "done", exit_code |-> code, args |-> args]

\* The decision after child.wait(): what the loop does, the exit code it
\* sets, the arguments of the next attempt.
AfterExit(code, args) ==
    IF Success(code)
    THEN [next |-> "done", exit_code |-> 0, args |-> args]
    ELSE IF continue_on_crash
         THEN IF error_no_conversation
              THEN [next |-> "done", exit_code |-> code, args |-> args]
              ELSE [next |-> "start", exit_code |-> exit_code, args |-> CONTINUE_ARGS]
         ELSE [next |-> "done", exit_code |-> code, args |-> args]

\* An evaluation that gives up after the second attempt.
EvaluateTwice ==
    /\ pc = "wait"
    /\ child[attempt].st = "exited"
    /\ LET d == AfterExit(child[attempt].code, claude_args) IN
       /\ pc' = IF attempt >= 2 THEN "done" ELSE d.next
       /\ exit_code' = d.exit_code
       /\ claude_args' = d.args
    /\ evals' = evals + 1
    /\ UNCHANGED <<config_vars, attempt, start_log, child_vars, reader_vars,
                   ready_vars, idle_vars, mux_vars, now>>

\* child.wait() returns and the exit status is evaluated.
Evaluate ==
    /\ pc = "wait"
    /\ child[attempt].st = "exited"
    /\ LET d == AfterExit(child[attempt].code, claude_args) IN
       /\ pc' = d.next
       /\ exit_code' = d.exit_code
       /\ claude_args' = d.args
    /\ evals' = evals + 1
    /\ UNCHANGED <<config_vars, attempt, start_log, child_vars, reader_vars,
                   ready_vars, idle_vars, mux_vars, now>>

(***************************************************************************)
(* The child and the user.                                                 *)
(***************************************************************************)
\* The running child writes to its terminal.
ChildWrite(c) ==
    /\ attempt \in Attempts
    /\ child[attempt].st = "running"
    /\ Alive
    /\ n_events < MaxEvents
    /\ n_events' = n_events + 1
    /\ pty' = [pty EXCEPT ![attempt] = Append(@, Encode(c))]
    /\ child_out' = child_out \o c
    /\ UNCHANGED <<config_vars, sup_vars, child, reader_vars, ready_vars,
                   idle_vars, mux, response_q, response_rx, response_tx,
                   stdin_q, stdin_rx, key_thread, child_in, discarded, now>>

\* The running child writes bytes that need not be UTF-8; the history of
\* its output then holds the bytes themselves.
ChildWriteBytes(bs) ==
    /\ attempt \in Attempts
    /\ child[attempt].st = "running"
    /\ Alive
    /\ n_events < MaxEvents
    /\ n_events' = n_events + 1
    /\ pty' = [pty EXCEPT ![attempt] = Append(@, bs)]
    /\ child_out' = child_out \o bs
    /\ UNCHANGED <<config_vars, sup_vars, child, reader_vars, ready_vars,
                   idle_vars, mux, response_q, response_rx, response_tx,
                   stdin_q, stdin_rx, key_thread, child_in, discarded, now>>

\* The running child exits.
ChildExit(code) ==
    /\ attempt \in Attempts
    /\ child[attempt].st = "running"
    /\ Alive
    /\ n_events < MaxEvents
    /\ n_events' = n_events + 1
    /\ child' = [child EXCEPT ![attempt] = [st |-> "exited", code |-> code]]
    /\ UNCHANGED <<config_vars, sup_vars, pty, child_out, reader_vars,
                   ready_vars, idle_vars, mux, response_q, response_rx,
                   response_tx, stdin_q, stdin_rx, key_thread, child_in,
                   discarded, now>>

\* The key thread of attempt s reads a key event: the end-of-input chord ends
\* the thread; a character is sent with blocking_send, which fails, ending
\* the thread, when the receiver was dropped.
KeyPress(s, k) ==
    /\ key_thread[s] = "running"
    /\ Alive
    /\ n_events < MaxEvents
    /\ n_events' = n_events + 1
    /\ IF k = "ctrl-d"
       THEN /\ key_thread' = [key_thread EXCEPT ![s] = "ended"]
            /\ UNCHANGED <<stdin_q, discarded>>
       ELSE IF stdin_rx[s]
            THEN /\ Len(stdin_q[s]) < STDIN_CAPACITY
                 /\ stdin_q' = [stdin_q EXCEPT ![s] = Append(@, KeyBytes(k))]
                 /\ UNCHANGED <<key_thread, discarded>>
            ELSE /\ key_thread' = [key_thread EXCEPT ![s] = "ended"]
                 /\ discarded' = discarded + (IF reader[s].pc = "read" THEN 1 ELSE 0)
                 /\ UNCHANGED stdin_q
    /\ UNCHANGED <<config_vars, sup_vars, child_vars, reader_vars, ready_vars,
                   idle_vars, mux, response_q, response_rx, response_tx,
                   stdin_rx, child_in, now>>

(***************************************************************************)
(* ready_manager.rs and idle_watcher.rs, as the wrapper calls them.        *)
(***************************************************************************)
\* A ready() that stores the negation of the flag.
ready_toggling ==
    IF ~read_held
    THEN /\ is_ready' = ~is_ready
         /\ notify_calls' = notify_calls + 1
         /\ UNCHANGED read_held
    ELSE UNCHANGED ready_vars

\* ReadyManager::ready: try_write fails while a read guard is held, and the
\* call then does nothing; the first successful call sets the flag and calls
\* notify_waiters.
ready ==
    IF ~read_held /\ ~is_ready
    THEN /\ is_ready' = TRUE
         /\ notify_calls' = notify_calls + 1
         /\ UNCHANGED read_held
    ELSE UNCHANGED ready_vars

\* An unready() that gives up when the flag is set.
unready_of_unset ==
    IF ~read_held /\ ~is_ready
    THEN /\ is_ready' = FALSE
         /\ UNCHANGED <<read_held, notify_calls>>
    ELSE UNCHANGED ready_vars

\* ReadyManager::unready: try_write fails while a read guard is held, and the
\* call then does nothing; otherwise the flag is cleared.  Nobody is
\* notified.
unready ==
    IF ~read_held
    THEN /\ is_ready' = FALSE
         /\ UNCHANGED <<read_held, notify_calls>>
    ELSE UNCHANGED ready_vars

\* IdleWatcher::ping, called only when an idle watcher is configured.
ping ==
    last_activity' = IF exit_on_idle # None THEN now ELSE last_activity

\* A test that needs more than the timeout.
is_idle_after_timeout ==
    now - last_activity > exit_on_idle

\* IdleWatcher::is_idle, and the test of IdleWatcher::watch.
is_idle ==
    now - last_activity >= exit_on_idle

(***************************************************************************)
(* The reader thread of process_output_with_responses.                     *)
(***************************************************************************)
\* The first k chunks, concatenated.
RECURSIVE Flatten(_, _)
Flatten(chunks, k) ==
    IF k = 0 THEN <<>> ELSE Flatten(chunks, k - 1) \o chunks[k]

\* One iteration of the read loop, for a read that returned the given bytes
\* and left the given chunks in the terminal.  The bytes are appended to the
\* carry-over and validated.  If all are valid the carry-over is emptied,
\* the text appended to the window, written to the render, readiness
\* signalled and the idle clock reset; if the trigger holds the window is
\* evaluated for a prompt and for the sentinel phrase; the window is
\* truncated.  If only a prefix is valid its text is appended to the window
\* and written to the render, readiness signalled and the idle clock reset,
\* and the other bytes are carried over.  If no prefix is valid all bytes
\* are carried over.
ReadLoop(s, bytes, rest) ==
    /\ Alive
    /\ reader[s].pc = "read"
    /\ \E all \in {reader[s].incomplete_utf8 \o bytes} :
       \E valid \in {valid_up_to(all)} :
       \E chunk \in {Decode(all, valid)} :
       \E joined \in {reader[s].output_buffer \o chunk} :
       \E triggered \in {valid = Len(all) /\ EvalTriggered(chunk, joined)} :
       \E clean \in {IF triggered THEN remove_control_characters(joined) ELSE
                      <<>>} :
       \E low \in {ToLowercase(clean)} :
       \E send \in {IF triggered /\ IsPrompt(clean, low)
                    THEN TrySend(response_q[s], response_rx[s], RESPONSE_CAPACITY)
                    ELSE "none"} :
       \E kept \in {IF send = "ok" THEN <<>> ELSE joined} :
       /\ pty' = [pty EXCEPT ![s] = rest]
       /\ IF valid > 0
          THEN /\ terminal_render' = write(terminal_render, chunk)
               /\ ready
               /\ ping
          ELSE UNCHANGED <<terminal_render, ready_vars, last_activity>>
       /\ dispatched' = dispatched \o chunk
       /\ response_q' = IF send = "ok"
                        THEN [response_q EXCEPT ![s] = Append(@, ResponseFor(low))]
                        ELSE response_q
       /\ error_no_conversation' =
              (error_no_conversation \/ (triggered /\ HasNoConversation(clean)))
       /\ reader' = [reader EXCEPT
                        ![s].incomplete_utf8 = SubSeq(all, valid + 1, Len(all)),
                        ![s].output_buffer = IF valid = Len(all)
                                             THEN TruncateWindow(kept)
                                             ELSE joined]
       /\ last_pass' = [text |-> chunk, window |-> reader[s].output_buffer,
                        evaluated |-> triggered, send |-> send,
                        sent |-> IF send = "ok" THEN
                      <<ResponseFor(low)>> ELSE <<>>,
                        rx_open |-> response_rx[s],
                        queued |-> Len(response_q[s]),
                        attempt |-> s,
                        carry |-> reader[s].incomplete_utf8]
    /\ UNCHANGED <<config_vars, sup_vars, child, child_out, monitor,
                   idle_calls, mux, response_rx, response_tx, stdin_q,
                   stdin_rx, key_thread, child_in, discarded, n_events, now>>

\* A read that returns n whole pending writes of the child.
ReaderChunk(s, n) ==
    /\ n \in 1..Len(pty[s])
    /\ ReadLoop(s, Flatten(pty[s], n), SubSeq(pty[s], n + 1, Len(pty[s])))

\* A read that returns only the first k bytes of the first pending write.
ReaderBytes(s, k) ==
    /\ pty[s] # <<>>
    /\ k \in 1..(Len(pty[s][1]) - 1)
    /\ ReadLoop(s, SubSeq(pty[s][1], 1, k),
                <<SubSeq(pty[s][1], k + 1, Len(pty[s][1]))>> \o Tail(pty[s]))

\* The pseudo-terminal pair of attempt s was dropped: the loop body ended.
PairDropped(s) ==
    attempt > s \/ (attempt = s /\ pc = "start")

\* read() returns Ok(0) or an error once the child is gone, its output read
\* and the wrapper's own handle of the terminal closed: the loop breaks and
\* the thread ends, dropping its sender.
ReaderEnd(s) ==
    /\ Alive
    /\ reader[s].pc = "read"
    /\ pty[s] = <<>>
    /\ child[s].st = "exited"
    /\ PairDropped(s)
    /\ reader' = [reader EXCEPT ![s].pc = "done"]
    /\ response_tx' = [response_tx EXCEPT ![s] = FALSE]
    /\ UNCHANGED <<config_vars, sup_vars, child_vars, terminal_render,
                   error_no_conversation, last_pass, dispatched, ready_vars, idle_vars,
                   mux, response_q, response_rx, stdin_q, stdin_rx,
                   key_thread, child_in, discarded, n_events, now>>

(***************************************************************************)
(* IdleWatcher::watch, spawned once per attempt.                           *)
(***************************************************************************)
\* The sleep of one second is over: the elapsed time is compared with the
\* timeout and, if it is reached, the callback decides whether to stop.
MonTick(s) ==
    /\ Alive
    /\ monitor[s].pc = "sleep"
    /\ now >= monitor[s].wake
    /\ IF is_idle
       THEN /\ idle_calls' = [idle_calls EXCEPT ![s] = @ + 1]
            /\ monitor' = IF on_idle(terminal_render)
                          THEN [monitor EXCEPT ![s].pc = "stopped"]
                          ELSE [monitor EXCEPT ![s].wake = now + TICK_MS]
       ELSE /\ monitor' = [monitor EXCEPT ![s].wake = now + TICK_MS]
            /\ UNCHANGED idle_calls
    /\ UNCHANGED <<config_vars, sup_vars, child_vars, reader_vars, ready_vars,
                   last_activity, mux_vars, now>>

\* The timers that have not expired: time passes only while one is pending,
\* and by the duration of that timer.
PendingTimers ==
    {TICK_MS : s \in {t \in Attempts : monitor[t].pc = "sleep" /\ monitor[t].wake > now}}
    \cup (IF mux.pc = "sleep" /\ mux.wake > now THEN {SETTLE_MS} ELSE {})

Advance ==
    /\ Alive
    /\ n_events < MaxEvents
    /\ n_events' = n_events + 1
    /\ \E d \in PendingTimers : now' = now + d
    /\ UNCHANGED <<config_vars, sup_vars, child_vars, reader_vars, ready_vars,
                   idle_vars, mux, response_q, response_rx, response_tx,
                   stdin_q, stdin_rx, key_thread, child_in, discarded>>

(***************************************************************************)
(* process_input_with_responses: the loop of the input multiplexer.  It    *)
(* runs only while select! polls input_future.                             *)
(***************************************************************************)
MuxPolled ==
    pc = "poll_input"

\* select! of the loop takes a response from response_rx and starts the
\* sleep of 200 ms.
MuxRecvResponse ==
    /\ MuxPolled
    /\ mux.pc = "select"
    /\ response_q[attempt] # <<>>
    /\ mux' = [mux EXCEPT !.pc = "sleep", !.kind = "response",
                          !.item = Head(response_q[attempt]),
                          !.wake = now + SETTLE_MS, !.dequeued_at = now]
    /\ response_q' = [response_q EXCEPT ![attempt] = Tail(@)]
    /\ UNCHANGED <<config_vars, sup_vars, child_vars, reader_vars, ready_vars,
                   idle_vars, response_rx, response_tx, stdin_q, stdin_rx,
                   key_thread, child_in, discarded, n_events, now>>

\* select! of the loop takes a keystroke from stdin_rx.
MuxRecvKey ==
    /\ MuxPolled
    /\ mux.pc = "select"
    /\ stdin_q[attempt] # <<>>
    /\ mux' = [mux EXCEPT !.pc = "w_read", !.kind = "key",
                          !.item = Head(stdin_q[attempt]), !.dequeued_at = now]
    /\ stdin_q' = [stdin_q EXCEPT ![attempt] = Tail(@)]
    /\ UNCHANGED <<config_vars, sup_vars, child_vars, reader_vars, ready_vars,
                   idle_vars, response_q, response_rx, response_tx, stdin_rx,
                   key_thread, child_in, discarded, n_events, now>>

\* Both channels are closed: the else branch breaks the loop.
MuxElse ==
    /\ MuxPolled
    /\ mux.pc = "select"
    /\ MuxSourcesClosed
    /\ mux' = [mux EXCEPT !.pc = "done"]
    /\ UNCHANGED <<config_vars, sup_vars, child_vars, reader_vars, ready_vars,
                   idle_vars, response_q, response_rx, response_tx, stdin_q,
                   stdin_rx, key_thread, child_in, discarded, n_events, now>>

\* The sleep of 200 ms is over.
MuxSleepDone ==
    /\ MuxPolled
    /\ mux.pc = "sleep"
    /\ now >= mux.wake
    /\ mux' = [mux EXCEPT !.pc = "w_read"]
    /\ UNCHANGED <<config_vars, sup_vars, child_vars, reader_vars, ready_vars,
                   idle_vars, response_q, response_rx, response_tx, stdin_q,
                   stdin_rx, key_thread, child_in, discarded, n_events, now>>

\* ReadyManager::wait takes the read guard of is_ready.
MuxWaitRead ==
    /\ MuxPolled
    /\ mux.pc = "w_read"
    /\ read_held' = TRUE
    /\ mux' = [mux EXCEPT !.pc = "w_held"]
    /\ UNCHANGED <<config_vars, sup_vars, child_vars, reader_vars, is_ready,
                   notify_calls, idle_vars, response_q, response_rx,
                   response_tx, stdin_q, stdin_rx, key_thread, child_in,
                   discarded, n_events, now>>

\* A wait that returns whatever the flag is.
AfterGateIgnoringFlag(flag) ==
    "write"

\* The position of ReadyManager::wait after it read the flag.
AfterGate(flag) ==
    IF flag THEN "write" ELSE "w_notified"

\* ReadyManager::wait reads the flag and releases the guard: it returns if
\* the flag is set, and goes on to notify.notified() otherwise.
MuxWaitCheck ==
    /\ MuxPolled
    /\ mux.pc = "w_held"
    /\ read_held' = FALSE
    /\ mux' = [mux EXCEPT !.pc = AfterGate(is_ready), !.gate_at = now]
    /\ UNCHANGED <<config_vars, sup_vars, child_vars, reader_vars, is_ready,
                   notify_calls, idle_vars, response_q, response_rx,
                   response_tx, stdin_q, stdin_rx, key_thread, child_in,
                   discarded, n_events, now>>

\* notify.notified() is created: it completes at the first notify_waiters
\* call made after this moment.
MuxWaitRegister ==
    /\ MuxPolled
    /\ mux.pc = "w_notified"
    /\ mux' = [mux EXCEPT !.pc = "w_wait", !.snapshot = notify_calls]
    /\ UNCHANGED <<config_vars, sup_vars, child_vars, reader_vars, ready_vars,
                   idle_vars, response_q, response_rx, response_tx, stdin_q,
                   stdin_rx, key_thread, child_in, discarded, n_events, now>>

\* notified() completes and the loop of ReadyManager::wait reads again.
MuxWaitWake ==
    /\ MuxPolled
    /\ mux.pc = "w_wait"
    /\ notify_calls # mux.snapshot
    /\ mux' = [mux EXCEPT !.pc = "w_read"]
    /\ UNCHANGED <<config_vars, sup_vars, child_vars, reader_vars, ready_vars,
                   idle_vars, response_q, response_rx, response_tx, stdin_q,
                   stdin_rx, key_thread, child_in, discarded, n_events, now>>

\* The record of an item of which only the first byte was written.
WrittenFirstByte ==
    [kind |-> mux.kind, bytes |-> SubSeq(mux.item, 1, 1), ready |-> is_ready,
     dequeued_at |-> mux.dequeued_at, gate_at |-> mux.gate_at, at |-> now]

\* The record of one item written to the child's input.
Written ==
    [kind |-> mux.kind, bytes |-> mux.item, ready |-> is_ready,
     dequeued_at |-> mux.dequeued_at, gate_at |-> mux.gate_at, at |-> now]

\* writer.write_all and writer.flush succeed.
MuxWrite ==
    /\ MuxPolled
    /\ mux.pc = "write"
    /\ child_in' = Append(child_in, Written)
    /\ mux' = [IdleMux EXCEPT !.pc = "select"]
    /\ UNCHANGED <<config_vars, sup_vars, child_vars, reader_vars, ready_vars,
                   idle_vars, response_q, response_rx, response_tx, stdin_q,
                   stdin_rx, key_thread, discarded, n_events, now>>

\* writer.write_all or writer.flush fails: the `?` returns the error from
\* process_input_with_responses, and the item is not written.
MuxWriteFail ==
    /\ MuxPolled
    /\ mux.pc = "write"
    /\ mux' = [IdleMux EXCEPT !.pc = "failed"]
    /\ UNCHANGED <<config_vars, sup_vars, child_vars, reader_vars, ready_vars,
                   idle_vars, response_q, response_rx, response_tx, stdin_q,
                   stdin_rx, key_thread, child_in, discarded, n_events, now>>

(***************************************************************************)
(* The wrapper run.  The select! of run_claude_process polls input_future  *)
(* at most once, and before output_future exists as a thread, so the       *)
(* response branch, the sleep and the else branch of the multiplexer never *)
(* run in it; they are exercised by MuxSpec below.                         *)
(***************************************************************************)
Supervisor ==
    \/ Start
    \/ StartFail
    \/ PollOutputFirst
    \/ PollInputFirst
    \/ PollOutputSecond
    \/ SelectReturn
    \/ InputFailed
    \/ Evaluate

Reader ==
    \/ \E s \in Attempts : \E n \in 1..Len(pty[s]) : ReaderChunk(s, n)
    \/ \E s \in Attempts : ReaderEnd(s)

Monitor ==
    \E s \in Attempts : MonTick(s)

MuxKeys ==
    \/ MuxRecvKey
    \/ MuxWaitRead
    \/ MuxWaitCheck
    \/ MuxWaitRegister
    \/ MuxWaitWake
    \/ MuxWrite
    \/ MuxWriteFail

Child(texts) ==
    \/ \E c \in texts : ChildWrite(c)
    \/ \E code \in 0..MaxExitCode : ChildExit(code)

User(keys) ==
    \E s \in Attempts : \E k \in keys : KeyPress(s, k)

\* The runs of the wrapper that end before the first tick of a timer.
Next ==
    \/ Supervisor
    \/ Reader
    \/ MuxKeys
    \/ Child(ChildWrites)
    \/ User({"a"})

Spec ==
    Init /\ [][Next]_vars

(***************************************************************************)
(* The runs with an idle timeout, time passing, in which select! polls     *)
(* output_future first.                                                    *)
(***************************************************************************)
IdleInit ==
    Init /\ exit_on_idle # None

IdleNext ==
    \/ Start
    \/ StartFail
    \/ PollOutputFirst
    \/ SelectReturn
    \/ Evaluate
    \/ Reader
    \/ Monitor
    \/ Child(IdleWrites)
    \/ Advance

IdleSpec ==
    IdleInit /\ [][IdleNext]_vars

\* The steps of the wrapper itself.  The runtime is multi-threaded: the
\* supervisor, each reader thread and each idle-watch task run when they
\* can; timers expire.  Nothing is assumed of the child.
Program ==
    Start \/ PollOutputFirst \/ SelectReturn \/ Evaluate

FairSpec ==
    /\ IdleSpec
    /\ WF_vars(Program)
    /\ WF_vars(Reader)
    /\ WF_vars(Monitor)
    /\ WF_vars(Advance)

(***************************************************************************)
(* The restart loop on its own: the supervisor, the reader threads and a   *)
(* child that prints the sentinel phrase or nothing and exits.  The        *)
(* supervisor runs when it can.                                            *)
(***************************************************************************)
RestartNext ==
    \/ Start
    \/ PollOutputFirst
    \/ SelectReturn
    \/ Evaluate
    \/ Reader
    \/ Child({NO_CONVERSATION \o NEWLINE})

RestartSpec ==
    /\ Init
    /\ [][RestartNext]_vars
    /\ WF_vars(Program)

(***************************************************************************)
(* The reader thread and its detector on their own: the first attempt,     *)
(* after select! polled output_future, fed with chunks of decoded text.    *)
(***************************************************************************)
PumpTexts ==
    {TXT_PROCEED, TXT_PROCEED \o NEWLINE, TXT_OVERWRITE,
     TXT_OVERWRITE \o NEWLINE, NO_CONVERSATION \o NEWLINE, TXT_OK, NEWLINE}

\* The state with q pending in the response channel of the first attempt.
PumpState(q) ==
    /\ continue_on_crash = TRUE
    /\ exit_on_idle = None
    /\ claude_args = <<"hello">>
    /\ pc = "selected"
    /\ exit_code = None
    /\ attempt = 1
    /\ child = [s \in Attempts |->
                   IF s = 1 THEN [st |-> "running", code |-> 0]
                   ELSE [st |-> "none", code |-> 0]]
    /\ pty = [s \in Attempts |-> <<>>]
    /\ reader = [s \in Attempts |->
                    [pc |-> IF s = 1 THEN "read" ELSE "none",
                     incomplete_utf8 |-> <<>>, output_buffer |-> <<>>]]
    /\ terminal_render = NewRender
    /\ is_ready = FALSE
    /\ read_held = FALSE
    /\ notify_calls = 0
    /\ last_activity = 0
    /\ error_no_conversation = FALSE
    /\ monitor = [s \in Attempts |-> [pc |-> "none", wake |-> 0]]
    /\ mux = IdleMux
    /\ response_q = [s \in Attempts |-> IF s = 1 THEN q ELSE <<>>]
    /\ response_rx = [s \in Attempts |-> s = 1]
    /\ response_tx = [s \in Attempts |-> s = 1]
    /\ stdin_q = [s \in Attempts |-> <<>>]
    /\ stdin_rx = [s \in Attempts |-> FALSE]
    /\ key_thread = [s \in Attempts |-> "none"]
    /\ now = 0
    /\ start_log = << <<"hello">> >>
    /\ evals = 0
    /\ child_out = <<>>
    /\ last_pass = NoPass
    /\ dispatched = <<>>
    /\ child_in = <<>>
    /\ discarded = 0
    /\ n_events = 0
    /\ idle_calls = [s \in Attempts |-> 0]

PumpInit ==
    PumpState(<<>>)

PumpNext ==
    \/ \E c \in PumpTexts : ChildWrite(c)
    \/ \E n \in 1..Len(pty[1]) : ReaderChunk(1, n)
    \/ SelectReturn

PumpSpec ==
    PumpInit /\ [][PumpNext]_vars

\* The same with a consumer that has not taken any of the responses sent so
\* far: one place is left in the channel.
BackedUpInit ==
    PumpState([i \in 1..(RESPONSE_CAPACITY - 1) |-> RESP_CR])

BackedUpSpec ==
    BackedUpInit /\ [][PumpNext]_vars

(***************************************************************************)
(* process_input_with_responses on its own: the first attempt, while       *)
(* select! polls input_future, with a detector that sends responses, a     *)
(* reader that signals readiness and ends, and a user who types.           *)
(***************************************************************************)
MuxInit ==
    /\ continue_on_crash = TRUE
    /\ exit_on_idle \in {None, TICK_MS}
    /\ claude_args = <<"hello">>
    /\ pc = "poll_input"
    /\ exit_code = None
    /\ attempt = 1
    /\ child = [s \in Attempts |->
                   IF s = 1 THEN [st |-> "running", code |-> 0]
                   ELSE [st |-> "none", code |-> 0]]
    /\ pty = [s \in Attempts |-> <<>>]
    /\ reader = [s \in Attempts |-> [pc |-> "none", incomplete_utf8 |-> <<>>,
                                     output_buffer |-> <<>>]]
    /\ terminal_render = NewRender
    /\ is_ready = FALSE
    /\ read_held = FALSE
    /\ notify_calls = 0
    /\ last_activity = 0
    /\ error_no_conversation = FALSE
    /\ monitor = [s \in Attempts |-> [pc |-> "none", wake |-> 0]]
    /\ mux = [IdleMux EXCEPT !.pc = "select"]
    /\ response_q = [s \in Attempts |-> <<>>]
    /\ response_rx = [s \in Attempts |-> s = 1]
    /\ response_tx = [s \in Attempts |-> s = 1]
    /\ stdin_q = [s \in Attempts |-> <<>>]
    /\ stdin_rx = [s \in Attempts |-> s = 1]
    /\ key_thread = [s \in Attempts |-> IF s = 1 THEN "running" ELSE "none"]
    /\ now = 0
    /\ start_log = << <<"hello">> >>
    /\ evals = 0
    /\ child_out = <<>>
    /\ last_pass = NoPass
    /\ dispatched = <<>>
    /\ child_in = <<>>
    /\ discarded = 0
    /\ n_events = 0
    /\ idle_calls = [s \in Attempts |-> 0]

\* The detector sends a response (try_send succeeds).
Offer(r) ==
    /\ MuxPolled
    /\ response_tx[attempt]
    /\ n_events < MaxEvents
    /\ TrySend(response_q[attempt], response_rx[attempt], RESPONSE_CAPACITY) = "ok"
    /\ n_events' = n_events + 1
    /\ response_q' = [response_q EXCEPT ![attempt] = Append(@, r)]
    /\ UNCHANGED <<config_vars, sup_vars, child, pty, child_out, reader_vars,
                   ready_vars, idle_vars, mux, response_rx, response_tx,
                   stdin_q, stdin_rx, key_thread, child_in, discarded, now>>

\* The reader calls ReadyManager::ready.
SignalReady ==
    /\ MuxPolled
    /\ response_tx[attempt]
    /\ ready
    /\ UNCHANGED <<config_vars, sup_vars, child_vars, reader_vars, idle_vars,
                   mux_vars, now>>

\* The reader ends and drops its sender.
SenderDropped ==
    /\ MuxPolled
    /\ response_tx[attempt]
    /\ response_tx' = [response_tx EXCEPT ![attempt] = FALSE]
    /\ UNCHANGED <<config_vars, sup_vars, child_vars, reader_vars, ready_vars,
                   idle_vars, mux, response_q, response_rx, stdin_q, stdin_rx,
                   key_thread, child_in, discarded, n_events, now>>

MuxNext ==
    \/ MuxRecvResponse
    \/ MuxRecvKey
    \/ MuxElse
    \/ MuxSleepDone
    \/ MuxWaitRead
    \/ MuxWaitCheck
    \/ MuxWaitRegister
    \/ MuxWaitWake
    \/ MuxWrite
    \/ MuxWriteFail
    \/ InputDone
    \/ InputFailed
    \/ \E r \in {RESP_CR, RESP_Y} : Offer(r)
    \/ SignalReady
    \/ SenderDropped
    \/ User(KeyEvents)
    \/ Advance

MuxSpec ==
    MuxInit /\ [][MuxNext]_vars

\* The steps of the multiplexer itself: one future, polled whenever it can
\* proceed.  Nothing is assumed of the detector, the reader or the user.
MuxProgram ==
    \/ MuxRecvResponse
    \/ MuxRecvKey
    \/ MuxElse
    \/ MuxSleepDone
    \/ MuxWaitRead
    \/ MuxWaitCheck
    \/ MuxWaitRegister
    \/ MuxWaitWake
    \/ MuxWrite
    \/ MuxWriteFail

FairMuxSpec ==
    /\ MuxSpec
    /\ WF_vars(MuxProgram)
    /\ WF_vars(Advance)

(***************************************************************************)
(* ReadyManager with a client that also calls unready, as the test of      *)
(* lib.rs does; the wrapper itself never calls it.  The multiplexer is the *)
(* task that waits and holds the read guard.                               *)
(***************************************************************************)
\* A task calls ReadyManager::unready.
Unready ==
    /\ MuxPolled
    /\ n_events < MaxEvents
    /\ n_events' = n_events + 1
    /\ unready
    /\ UNCHANGED <<config_vars, sup_vars, child_vars, reader_vars, idle_vars,
                   mux, response_q, response_rx, response_tx, stdin_q,
                   stdin_rx, key_thread, child_in, discarded, now>>

ReadyNext ==
    \/ MuxNext
    \/ Unready

ReadySpec ==
    MuxInit /\ [][ReadyNext]_vars

(***************************************************************************)
(* Properties of the supervisor (Spec).                                    *)
(***************************************************************************)
\* The step that evaluates an exit status.
Evaluated ==
    evals' = evals + 1

\* C1: if the sentinel phrase "No conversation found to continue" has
\* appeared in the child's output by the time a child exits with a non-zero
\* status, the evaluation of that status ends the run with that code, even
\* with continue_on_crash true: there is no further Start.
C1_SentinelStopsRestart ==
    [][(/\ Evaluated
        /\ child[attempt].code # 0
        /\ Contains(child_out, NO_CONVERSATION))
       => (pc' = "done" /\ exit_code' = child[attempt].code)]_vars

\* C2: the evaluation of a non-zero exit status with continue_on_crash true
\* and the sentinel flag unset leads back to Start with the arguments
\* ["--continue", "continue"]; Start was entered exactly once since the
\* evaluation before, and every Start after the first has these arguments.
C2_RestartOnceWithContinue ==
    [][/\ (/\ Evaluated
           /\ child[attempt].code # 0
           /\ continue_on_crash
           /\ ~error_no_conversation)
          => (/\ pc' = "start"
              /\ claude_args' = CONTINUE_ARGS
              /\ exit_code' = exit_code
              /\ Len(start_log) = evals + 1)
       /\ \A i \in 2..Len(start_log') : start_log'[i] = CONTINUE_ARGS]_vars

\* A second exit status was evaluated and led to a restart, the first Start
\* having had the original arguments.
C2_Witness ==
    /\ evals = 2
    /\ pc = "start"
    /\ claude_args = CONTINUE_ARGS
    /\ start_log = << <<"hello">>, CONTINUE_ARGS >>

\* C3: the evaluation of exit status 0 ends the run with code 0, whatever
\* continue_on_crash and the sentinel flag are; the evaluation of a failure
\* with continue_on_crash false ends the run with the failure code; with
\* continue_on_crash false Start is entered once.
C3_TerminalStates ==
    [][/\ (Evaluated /\ child[attempt].code = 0)
          => (pc' = "done" /\ exit_code' = 0)
       /\ (Evaluated /\ child[attempt].code # 0 /\ ~continue_on_crash)
          => (pc' = "done" /\ exit_code' = child[attempt].code)
       /\ ~continue_on_crash => Len(start_log') <= 1]_vars

\* The run ended with the largest failure code, continue_on_crash false.
C3_Witness ==
    /\ pc = "done"
    /\ ~continue_on_crash
    /\ exit_code = MaxExitCode
    /\ evals = 1
    /\ Len(start_log) = 1

\* C4: the supervisor waits for the exit status of the child only after the
\* reader of the attempt has ended (end of stream or read error), or after
\* the idle-watch task of the attempt asked to stop.
C4_WaitOnlyAfterPumpEnd ==
    pc = "wait" => (reader[attempt].pc = "done" \/ monitor[attempt].pc = "stopped")

\* C5: no response enqueued, and no keystroke captured, while the reader of
\* its attempt has not reached the end of the stream is thrown away
\* unwritten.
C5_NothingDiscarded ==
    discarded = 0

(***************************************************************************)
(* Properties of the detector (PumpSpec).                                  *)
(***************************************************************************)
\* The last pass of the reader took the given chunk on an empty window with
\* the response channel open and not full.
FedAlone(text) ==
    /\ last_pass.attempt = 1
    /\ last_pass.text = text
    /\ last_pass.window = <<>>
    /\ last_pass.rx_open
    /\ last_pass.queued < RESPONSE_CAPACITY

\* C6, as stated: the chunk "Do you want to proceed? ❯ 1. Yes", on an empty
\* window with the channel open and not full, enqueues exactly one response,
\* a carriage return.
C6_ProceedAnswered ==
    FedAlone(TXT_PROCEED) => last_pass.sent = <<RESP_CR>>

\* C6, amended: the chunk "Do you want to proceed? ❯ 1. Yes\n", on an empty
\* window with the channel open and not full, enqueues exactly one response,
\* a carriage return.
C6_ProceedLineAnswered ==
    FedAlone(TXT_PROCEED \o NEWLINE) => last_pass.sent = <<RESP_CR>>

C6_Witness ==
    FedAlone(TXT_PROCEED \o NEWLINE) /\ last_pass.sent = <<RESP_CR>>

\* C7, as stated: the chunk "Overwrite file? (y/n)", on an empty window with
\* the channel open and not full, enqueues exactly one response, "y" and a
\* line terminator.
C7_OverwriteAnswered ==
    FedAlone(TXT_OVERWRITE) => last_pass.sent = <<RESP_Y>>

\* C7, amended: the chunk "Overwrite file? (y/n)\n", on an empty window with
\* the channel open and not full, enqueues exactly one response, "y" and a
\* line terminator.
C7_OverwriteLineAnswered ==
    FedAlone(TXT_OVERWRITE \o NEWLINE) => last_pass.sent = <<RESP_Y>>

C7_Witness ==
    FedAlone(TXT_OVERWRITE \o NEWLINE) /\ last_pass.sent = <<RESP_Y>>

(***************************************************************************)
(* Properties of the idle watcher (IdleSpec, FairSpec).                    *)
(***************************************************************************)
\* The idle-watch task of the running attempt s stopped while its child runs.
IdleRequested(s) ==
    /\ attempt = s
    /\ monitor[s].pc = "stopped"
    /\ child[s].st = "running"
    /\ Alive

\* The supervisor is past the session of attempt s.
SessionOver(s) ==
    attempt # s \/ pc \in {"start", "done", "error"}

\* C8: once the idle callback returned idle and the idle-watch task of the
\* current attempt stopped, the supervisor ends that session, although the
\* child has not closed its output.
C8_IdleEndsSession ==
    \A s \in Attempts : IdleRequested(s) ~> SessionOver(s)

\* C9: a tick on which the timeout has elapsed calls the callback; when the
\* rendered transcript then contains "esc to interrupt" or "to run in
\* background" the idle-watch task does not stop and sleeps for its next
\* tick.
C9_IdleVeto ==
    [][\A s \in Attempts :
          /\ (monitor[s].pc = "sleep" /\ monitor'[s] # monitor[s] /\ is_idle)
             => idle_calls'[s] = idle_calls[s] + 1
          /\ (/\ idle_calls'[s] = idle_calls[s] + 1
              /\ StillWorking(render(terminal_render)))
             => (monitor'[s].pc = "sleep" /\ monitor'[s].wake = now + TICK_MS)]_vars

\* The callback was called on two ticks with the marker on display, and the
\* idle-watch task still sleeps.
C9_Witness ==
    /\ idle_calls[1] >= 2
    /\ monitor[1].pc = "sleep"
    /\ StillWorking(render(terminal_render))

(***************************************************************************)
(* Properties of the input multiplexer (MuxSpec).                          *)
(***************************************************************************)
\* C10: every item written to the child's input was written with the
\* readiness flag set; a response was written after its wait on the
\* readiness gate returned, and that wait returned no earlier than 200 ms
\* after the response was dequeued.
C10_WriteGated ==
    \A i \in DOMAIN child_in :
       /\ child_in[i].ready
       /\ child_in[i].at >= child_in[i].gate_at
       /\ child_in[i].kind = "response"
          => child_in[i].gate_at >= child_in[i].dequeued_at + SETTLE_MS

\* A response and a keystroke were written.
C10_Witness ==
    /\ \E i \in DOMAIN child_in : child_in[i].kind = "response"
    /\ \E i \in DOMAIN child_in : child_in[i].kind = "key"

(***************************************************************************)
(* TerminalRender on its own: a render that already took some text, and    *)
(* further calls of write.  child_out is the text written so far.          *)
(***************************************************************************)
\* The lines lo..hi of a text of one-letter lines, the letter telling the
\* line number modulo 26.
RECURSIVE LetterLines(_, _)
LetterLines(lo, hi) ==
    IF lo > hi THEN <<>>
    ELSE IF lo = hi THEN <<97 + (lo % 26), 10>>
    ELSE LET mid == (lo + hi) \div 2
         IN  LetterLines(lo, mid) \o LetterLines(mid + 1, hi)

\* The texts a render took before: nothing, one line less than the
\* scrollback holds, one character less than a line holds.
RenderBases ==
    {<<>>,
     LetterLines(1, MAX_LINES - 1),
     [i \in 1..(MAX_LINE_LENGTH - 1) |-> 97]}

\* The texts of the further writes: a line, a letter, and the two writes of
\* test_terminal_render_with_control_chars.
RenderTexts ==
    {<<120, 10>>, <<98>>,
     <<84, 101, 115, 116, 8, 8, 115, 116>>,
     <<10, 76, 105, 110, 101, 32, 50>>}

RenderInit ==
    /\ continue_on_crash = TRUE
    /\ exit_on_idle = None
    /\ claude_args = <<"hello">>
    /\ pc = "selected"
    /\ exit_code = None
    /\ attempt = 1
    /\ child = [s \in Attempts |->
                   IF s = 1 THEN [st |-> "running", code |-> 0]
                   ELSE [st |-> "none", code |-> 0]]
    /\ pty = [s \in Attempts |-> <<>>]
    /\ reader = [s \in Attempts |->
                    [pc |-> IF s = 1 THEN "read" ELSE "none",
                     incomplete_utf8 |-> <<>>, output_buffer |-> <<>>]]
    /\ child_out \in RenderBases
    /\ terminal_render = write(NewRender, child_out)
    /\ is_ready = FALSE
    /\ read_held = FALSE
    /\ notify_calls = 0
    /\ last_activity = 0
    /\ error_no_conversation = FALSE
    /\ monitor = [s \in Attempts |-> [pc |-> "none", wake |-> 0]]
    /\ mux = IdleMux
    /\ response_q = [s \in Attempts |-> <<>>]
    /\ response_rx = [s \in Attempts |-> s = 1]
    /\ response_tx = [s \in Attempts |-> s = 1]
    /\ stdin_q = [s \in Attempts |-> <<>>]
    /\ stdin_rx = [s \in Attempts |-> FALSE]
    /\ key_thread = [s \in Attempts |-> "none"]
    /\ now = 0
    /\ start_log = << <<"hello">> >>
    /\ evals = 0
    /\ last_pass = NoPass
    /\ dispatched = <<>>
    /\ child_in = <<>>
    /\ discarded = 0
    /\ n_events = 0
    /\ idle_calls = [s \in Attempts |-> 0]

\* terminal_render.write(&text) with a further text.
RenderWrite(text) ==
    /\ n_events < MaxEvents
    /\ n_events' = n_events + 1
    /\ terminal_render' = write(terminal_render, text)
    /\ child_out' = child_out \o text
    /\ UNCHANGED <<config_vars, sup_vars, child, pty, reader,
                   error_no_conversation, last_pass, dispatched, ready_vars, idle_vars,
                   mux, response_q, response_rx, response_tx, stdin_q,
                   stdin_rx, key_thread, child_in, discarded, now>>

RenderSpec ==
    RenderInit /\ [][\E text \in RenderTexts : RenderWrite(text)]_vars

(***************************************************************************)
(* remove_control_characters on the window of the detector: the reader     *)
(* and its detector on their own, fed with pieces of escape sequences.     *)
(***************************************************************************)
\* The pieces of the input of test_remove_control_characters, an escape
\* sequence in three pieces, and DEL.
StripTexts ==
    {<<27, 91, 51, 49, 109, 82, 101, 100, 32, 84, 101, 120, 116>>,
     <<27, 91, 48, 109>>,
     <<32, 78, 111, 114, 109, 97, 108, 8, 66, 97, 99, 107, 115, 112, 97, 99,
       101>>,
     <<27, 91>>, <<49, 59, 51>>, <<109, 10>>, <<127>>}

StripNext ==
    \/ \E c \in StripTexts : ChildWrite(c)
    \/ \E n \in 1..Len(pty[1]) : ReaderChunk(1, n)

StripSpec ==
    PumpInit /\ [][StripNext]_vars

(***************************************************************************)
(* The reader and its detector on their own, fed with bracketed y/n forms  *)
(* in several letter cases.                                                *)
(***************************************************************************)
\* "Replace it? [Y/n]\n", "Replace it? (Y/N)\n"
UpperCaseTexts ==
    {<<82, 101, 112, 108, 97, 99, 101, 32, 105, 116, 63, 32, 91, 89, 47, 110,
       93, 10>>,
     <<82, 101, 112, 108, 97, 99, 101, 32, 105, 116, 63, 32, 40, 89, 47, 78,
       41, 10>>}

BracketNext ==
    \/ \E c \in UpperCaseTexts \cup {TXT_OVERWRITE \o NEWLINE} : ChildWrite(c)
    \/ \E n \in 1..Len(pty[1]) : ReaderChunk(1, n)

BracketSpec ==
    PumpInit /\ [][BracketNext]_vars

(***************************************************************************)
(* The reader and its window on their own, with reads that fill the read   *)
(* buffer: every read returns one write of the child, of READ_BUFFER bytes *)
(* at most.                                                                *)
(***************************************************************************)
\* Lines of 63 letters 'x' that fill the read buffer, "ok", "\n"
WindowTexts ==
    {[i \in 1..READ_BUFFER |-> IF i % 64 = 0 THEN 10 ELSE 120], TXT_OK,
     NEWLINE}

WindowNext ==
    \/ \E c \in WindowTexts : ChildWrite(c)
    \/ ReaderChunk(1, 1)

WindowSpec ==
    PumpInit /\ [][WindowNext]_vars

(***************************************************************************)
(* The decoder of the reader on its own: the child writes text with        *)
(* characters of one to four bytes, and a read may end inside a write.     *)
(***************************************************************************)
\* "é", "❯", an emoji of four bytes, "a\n", "\né"
DecodeTexts ==
    {<<233>>, <<10095>>, <<128512>>, <<97, 10>>, <<10, 233>>}

DecodeNext ==
    \/ \E c \in DecodeTexts : ChildWrite(c)
    \/ \E n \in 1..Len(pty[1]) : ReaderChunk(1, n)
    \/ \E k \in 1..3 : ReaderBytes(1, k)

DecodeSpec ==
    PumpInit /\ [][DecodeNext]_vars

(***************************************************************************)
(* The decoder of the reader fed with arbitrary bytes: pieces of           *)
(* characters, bytes that never begin a character, and text.               *)
(***************************************************************************)
\* "a", "é", the first two bytes of "❯", its last byte, a byte that is
\* valid nowhere, "\n"
ByteWrites ==
    {<<97>>, <<195, 169>>, <<226, 157>>, <<175>>, <<255>>, <<10>>}

ByteNext ==
    \/ \E bs \in ByteWrites : ChildWriteBytes(bs)
    \/ \E n \in 1..Len(pty[1]) : ReaderChunk(1, n)
    \/ ReaderBytes(1, 1)

ByteSpec ==
    PumpInit /\ [][ByteNext]_vars

(***************************************************************************)
(* Properties of the readiness gate (FairMuxSpec, Spec).                   *)
(***************************************************************************)
\* The multiplexer is inside ReadyManager::wait.
Waiting ==
    mux.pc \in {"w_read", "w_held", "w_notified", "w_wait"}

\* C11: once the readiness flag is set (ready() was called for decoded
\* text), a caller inside wait() eventually leaves it, whatever the
\* interleaving of ready() with wait().
C11_WaitersReleased ==
    (is_ready /\ Waiting) ~> ~Waiting

\* C12: once the readiness flag is true it stays true in every later step of
\* the run, also over the end of a session and a restart.
C12_ReadySticky ==
    [][is_ready => is_ready']_vars

\* The second child was spawned with the flag already set.
C12_Witness ==
    /\ attempt = 2
    /\ pc = "select"
    /\ is_ready

(***************************************************************************)
(* Properties of the error handling of the supervisor (Spec).              *)
(***************************************************************************)
\* The setup of an attempt failed in this step: Start was entered and no
\* child came of it.
SetupFailed ==
    Len(start_log') = Len(start_log) + 1 /\ attempt' = attempt

\* C13: a failed setup, on the first attempt or on a restart, ends the run
\* with an error; after an error there is no further Start and no exit code.
C13_SetupErrorFatal ==
    [][/\ SetupFailed => pc' = "error"
       /\ pc = "error" => (/\ pc' = "error"
                           /\ start_log' = start_log
                           /\ exit_code' = exit_code)]_vars

\* The setup of the restart attempt failed with continue_on_crash true.
C13_Witness ==
    /\ pc = "error"
    /\ continue_on_crash
    /\ attempt = 1
    /\ evals = 1
    /\ Len(start_log) = 2

\* C14: the run ends with an error only when the setup of an attempt
\* failed; a read error of the reader or a failed write or flush of the
\* multiplexer never ends it so.
C14_MidSessionErrorsAbsorbed ==
    pc = "error" => Len(start_log) = attempt + 1

(***************************************************************************)
(* Properties of TerminalRender (RenderSpec).                              *)
(***************************************************************************)
\* C16: the render never holds more than MAX_LINES committed lines, and for
\* a text of short lines of printable ASCII it holds the last
\* min(number of newlines, MAX_LINES) lines of the text, oldest first: what
\* render() returns is the tail of the text written.
C16_ScrollbackBounded ==
    LET ls == terminal_render.lines
        shown == render(terminal_render)
        plain == \A i \in 1..Len(child_out) :
                     child_out[i] = 10 \/ (child_out[i] >= 32 /\ child_out[i] < 127)
        short == \A i \in 1..(Len(child_out) - MAX_LINE_LENGTH) :
                     \E j \in i..(i + MAX_LINE_LENGTH) : child_out[j] = 10
        commits == Cardinality({i \in 1..Len(child_out) : child_out[i] = 10})
    IN  /\ Len(ls) <= MAX_LINES
        /\ (plain /\ short) =>
              /\ Len(ls) = IF commits > MAX_LINES THEN MAX_LINES ELSE commits
              /\ shown = SubSeq(child_out, Len(child_out) - Len(shown) + 1,
                                Len(child_out))

\* More lines were committed than the scrollback holds.
C16_Witness ==
    /\ Len(terminal_render.lines) = MAX_LINES
    /\ Cardinality({i \in 1..Len(child_out) : child_out[i] = 10}) = MAX_LINES + 1
    /\ \A i \in 1..Len(child_out) : child_out[i] = 10 \/ child_out[i] >= 97
    /\ terminal_render.lines[1] = <<97 + 2>>
    /\ terminal_render.lines[MAX_LINES] = <<120>>

\* C17: no committed line has more than MAX_LINE_LENGTH characters.
C17_LineLengthBounded ==
    \A i \in 1..Len(terminal_render.lines) :
        Len(terminal_render.lines[i]) <= MAX_LINE_LENGTH

\* C18: write treats each character as the table of line editing says, from
\* every state of the render: a newline commits the line in progress as the
\* last line and starts an empty one; a carriage return empties the line in
\* progress; backspace and DEL remove its last character, if any, and leave
\* the committed lines alone; other control characters change nothing; a
\* printable character is appended (and the line committed with it when it
\* grew over the limit).  render() gives the committed lines, then the line
\* in progress: the two writes of test_terminal_render_with_control_chars
\* render as "Test", newline, "Line 2".
C18_LineEditing ==
    LET tr == terminal_render
        cur == tr.current_line
        after(ch) == write(tr, <<ch>>)
        nl == after(10)
    IN  /\ nl.current_line = <<>>
        /\ Len(nl.lines) >= 1
        /\ nl.lines[Len(nl.lines)] = cur
        /\ SubSeq(nl.lines, 1, Len(nl.lines) - 1)
              \in {tr.lines, SubSeq(tr.lines, 2, Len(tr.lines))}
        /\ after(13) = [lines |-> tr.lines, current_line |-> <<>>]
        /\ \A ch \in {8, 127} :
              /\ after(ch).lines = tr.lines
              /\ after(ch).current_line =
                    IF cur = <<>> THEN <<>> ELSE SubSeq(cur, 1, Len(cur) - 1)
        /\ \A ch \in {0, 7, 9, 27, 31, 133, 159} : after(ch) = tr
        /\ \A ch \in {32, 98, 126, 233, 10095} :
              \/ after(ch) = [lines |-> tr.lines, current_line |-> Append(cur, ch)]
              \/ /\ LenExceeds(Append(cur, ch), MAX_LINE_LENGTH)
                 /\ after(ch).current_line = <<>>
                 /\ after(ch).lines[Len(after(ch).lines)] = Append(cur, ch)
        /\ child_out = <<84, 101, 115, 116, 8, 8, 115, 116,
                         10, 76, 105, 110, 101, 32, 50>>
              => render(tr) = <<84, 101, 115, 116, 10, 76, 105, 110, 101, 32,
                      50>>

\* The two writes of the test were made: the backspaces acted on "Test".
C18_Witness ==
    /\ child_out = <<84, 101, 115, 116, 8, 8, 115, 116,
                     10, 76, 105, 110, 101, 32, 50>>
    /\ terminal_render.lines = << <<84, 101, 115, 116>> >>
    /\ terminal_render.current_line = <<76, 105, 110, 101, 32, 50>>

(***************************************************************************)
(* Properties of remove_control_characters (StripSpec).                    *)
(***************************************************************************)
\* C19: of the text the child wrote, remove_control_characters keeps, in
\* order and unchanged, exactly the characters that are no control character
\* (0x00-0x1F, 0x7F) and lie in no sequence ESC '[' [0-9;]* letter; so it is
\* the identity on text without control characters, and the input of
\* test_remove_control_characters gives "Red Text NormalBackspace".
C19_StripKeepsTheRest ==
    LET t == child_out
        out == remove_control_characters(t)
        ctrl(c) == c <= 31 \/ c = 127
        param(c) == c \in 48..57 \/ c = 59
        letter(c) == c \in 65..90 \/ c \in 97..122
        csi(p, e) == /\ t[p] = 27
                     /\ t[p + 1] = 91
                     /\ letter(t[e])
                     /\ \A k \in (p + 2)..(e - 1) : param(t[k])
        kept == {i \in 1..Len(t) :
                    /\ ~ctrl(t[i])
                    /\ ~\E p \in 1..(i - 1) : \E e \in i..Len(t) :
                           e >= p + 2 /\ csi(p, e)}
    IN  /\ Len(out) = Cardinality(kept)
        /\ \A i \in kept : out[Cardinality({j \in kept : j <= i})] = t[i]
        /\ (\A i \in 1..Len(t) : ~ctrl(t[i])) => out = t
        /\ t = <<27, 91, 51, 49, 109, 82, 101, 100, 32, 84, 101, 120, 116, 27,
                 91, 48, 109, 32, 78, 111, 114, 109, 97, 108, 8, 66, 97, 99,
                 107, 115, 112, 97, 99, 101>>
              => out = <<82, 101, 100, 32, 84, 101, 120, 116, 32, 78, 111,
                      114, 109, 97, 108, 66, 97, 99, 107, 115, 112, 97, 99,
                      101>>

\* The input of the test was written and read, and the backspace in it
\* erased nothing.
C19_Witness ==
    /\ child_out = <<27, 91, 51, 49, 109, 82, 101, 100, 32, 84, 101, 120, 116,
                     27, 91, 48, 109, 32, 78, 111, 114, 109, 97, 108, 8, 66,
                     97, 99, 107, 115, 112, 97, 99, 101>>
    /\ reader[1].output_buffer = child_out
    /\ Len(remove_control_characters(reader[1].output_buffer)) = 24

(***************************************************************************)
(* Properties of the enqueue of a response (BackedUpSpec).                 *)
(***************************************************************************)
\* C20: a pass of the reader adds at most one response to the channel; a
\* pass that found a prompt succeeds exactly when the consumer is open and
\* the channel holds less than its capacity, and then leaves the window
\* empty; when the channel is full or closed the channel is as before, the
\* window is the old window with the new text, and the reader reads on.
C20_TrySendOutcomes ==
    [][last_pass' # last_pass =>
        LET q == response_q[1]
            found == last_pass'.send # "none"
            room == response_rx[1] /\ Len(q) < RESPONSE_CAPACITY
        IN  /\ Len(response_q'[1]) <= Len(q) + 1
            /\ Len(response_q'[1]) = Len(q) + 1 <=> (found /\ room)
            /\ (found /\ room) => reader'[1].output_buffer = <<>>
            /\ (found /\ ~room) =>
                  /\ response_q'[1] = q
                  /\ reader'[1].output_buffer =
                        reader[1].output_buffer \o last_pass'.text
                  /\ reader'[1].pc = "read"
            /\ last_pass'.send = "full" => response_rx[1]
            /\ last_pass'.send = "closed" => ~response_rx[1]]_vars

\* A prompt was found while the channel was full: the response was dropped
\* and the window kept.
C20_Witness ==
    /\ last_pass.send = "full"
    /\ Len(response_q[1]) = RESPONSE_CAPACITY
    /\ reader[1].output_buffer = last_pass.window \o last_pass.text
    /\ reader[1].pc = "read"

(***************************************************************************)
(* Properties of the decoder (DecodeSpec).                                 *)
(***************************************************************************)
\* C15: however the reads split the bytes of the text the child wrote, the
\* text passed on so far is the beginning of that text, it holds no
\* replacement character, the bytes not passed on are the carry-over and
\* the unread bytes, in this order, and once every byte is read all of the
\* text was passed on.
C15_DecodedAsWritten ==
    /\ Len(dispatched) <= Len(child_out)
    /\ dispatched = SubSeq(child_out, 1, Len(dispatched))
    /\ \A i \in 1..Len(dispatched) : dispatched[i] # 65533
    /\ Encode(dispatched) \o reader[1].incomplete_utf8
          \o Flatten(pty[1], Len(pty[1])) = Encode(child_out)
    /\ pty[1] = <<>> => (dispatched = child_out /\ reader[1].incomplete_utf8 = <<>>)

\* A read ended inside a character of four bytes, whose first bytes were
\* carried over; the next read completed it and the text was passed on whole.
C15_Witness ==
    /\ Len(last_pass.carry) = 3
    /\ last_pass.text = <<128512>>
    /\ pty[1] = <<>>
    /\ Len(child_out) = 3
    /\ dispatched = child_out

(***************************************************************************)
(* Properties of the idle clock (MuxSpec, IdleSpec).                       *)
(***************************************************************************)
\* C21: with an idle watcher configured, every step that passes decoded
\* output on and every step that writes a keystroke or a response to the
\* child sets the time of the last activity to the time of that step.
C21_ActivityPings ==
    [][(/\ exit_on_idle # None
        /\ \/ Len(dispatched') > Len(dispatched)
           \/ Len(child_in') > Len(child_in))
       => last_activity' = now']_vars

\* C22: is_idle() is false at construction, true once the timeout has
\* passed without a ping, false after every ping, and as long as there is no
\* ping a true verdict stays true; two checks without a step in between see
\* the same state, is_idle being a function of the state that writes nothing.
C22_IdleVerdict ==
    /\ now = 0 => ~is_idle
    /\ (dispatched = <<>> /\ now >= exit_on_idle) => is_idle
    /\ (dispatched = <<>> /\ now < exit_on_idle) => ~is_idle
    /\ last_activity = now => ~is_idle
    /\ last_activity <= now

\* The timeout passed without a ping and is_idle() was true; then the reader
\* passed text on, and is_idle() is false again.
C22_Witness ==
    /\ now = TICK_MS
    /\ dispatched # <<>>
    /\ last_activity = now
    /\ ~is_idle

C24_ReadyManager ==
    /\ [](notify_calls = 0 => ~is_ready)
    /\ [][/\ (SignalReady /\ ~read_held) => is_ready'
          /\ (Unready /\ ~read_held) => ~is_ready'
          /\ (SignalReady /\ is_ready) => UNCHANGED ready_vars
          /\ notify_calls' # notify_calls => (~is_ready /\ is_ready')]_vars

\* ready(), unready() and ready() again: the flag was set twice.
C24_Witness ==
    /\ notify_calls = 2
    /\ is_ready

(* Properties of the read loop when a read ends inside a character         *)
(* (DecodeSpec).                                                           *)
\* C25: a pass that hands text on evaluates the window exactly when the
\* trigger holds for that text and the window it was appended to, whether
\* the bytes of the read were all valid or only a prefix of them was.
C25_PrefixEvaluated ==
    last_pass.text # <<>> =>
        (last_pass.evaluated <=>
             EvalTriggered(last_pass.text, last_pass.window \o last_pass.text))

(* Properties of the detector, continued (BracketSpec, PumpSpec). *)
\* C26: the chunks "Replace it? [Y/n]\n" and "Replace it? (Y/N)\n", whose
\* only signature is a bracketed form with capital letters, on an empty
\* window with the channel open and not full, enqueue exactly one response,
\* "y" and a line terminator.
C26_UpperCaseAnswered ==
    \A text \in UpperCaseTexts :
        FedAlone(text) => last_pass.sent = <<RESP_Y>>

C28_WindowBounded ==
    ByteLen(reader[1].output_buffer) <= WINDOW_CAP

(* Properties of the order of the input (MuxSpec). *)
\* C29: for each source, the items written, the item taken from the channel
\* and not yet written, and the items waiting in the channel form one
\* sequence in this order; a step leaves it alone, appends an item at its
\* end, or drops the item that was taken and not written.  Hence the items
\* of a source are written in the order they were enqueued.  A write appends
\* one whole item, the one taken last, so that nothing is written between
\* the take of a response and its write.
C29_OrderAndAtomicity ==
    [][LET IsResponse(w) == w.kind = "response"
           IsKey(w) == w.kind = "key"
           Bytes(ws) == [i \in 1..Len(ws) |-> ws[i].bytes]
           Flight(m, kind) == IF m.kind = kind THEN <<m.item>> ELSE <<>>
           Follows(old, new, done) ==
               \/ new = old
               \/ /\ Len(new) = Len(old) + 1
                  /\ SubSeq(new, 1, Len(old)) = old
               \/ /\ Len(old) > done
                  /\ new = SubSeq(old, 1, done)
                             \o SubSeq(old, done + 2, Len(old))
       IN  /\ Follows(Bytes(SelectSeq(child_in, IsResponse))
                        \o Flight(mux, "response") \o response_q[1],
                      Bytes(SelectSeq(child_in', IsResponse))
                        \o Flight(mux', "response") \o response_q'[1],
                      Len(SelectSeq(child_in, IsResponse)))
           /\ Follows(Bytes(SelectSeq(child_in, IsKey))
                        \o Flight(mux, "key") \o stdin_q[1],
                      Bytes(SelectSeq(child_in', IsKey))
                        \o Flight(mux', "key") \o stdin_q'[1],
                      Len(SelectSeq(child_in, IsKey)))
           /\ child_in' # child_in =>
                 /\ Len(child_in') = Len(child_in) + 1
                 /\ SubSeq(child_in', 1, Len(child_in)) = child_in
                 /\ mux.kind # "none"
                 /\ child_in'[Len(child_in')].kind = mux.kind
                 /\ child_in'[Len(child_in')].bytes = mux.item]_vars

\* A response was written at the end of its settle interval and, in the
\* same instant, the keystroke that waited in the channel behind it.
C29_Witness ==
    /\ Len(child_in) = 2
    /\ child_in[1].kind = "response"
    /\ child_in[1].at = child_in[1].dequeued_at + SETTLE_MS
    /\ child_in[2].kind = "key"
    /\ child_in[2].bytes = <<13>>
    /\ child_in[2].at = child_in[1].at

(* Properties of the tasks of a session across restarts (IdleSpec). *)
\* C30: at most one idle-watch task is inside its tick loop and at most one
\* reader thread is inside its read loop.
C30_OneMonitorOneReader ==
    /\ Cardinality({s \in Attempts : monitor[s].pc = "sleep"}) <= 1
    /\ Cardinality({s \in Attempts : reader[s].pc = "read"}) <= 1

(* Properties of the decoder on arbitrary bytes (ByteSpec). *)
\* C31: the bytes of the text passed on so far, the carry-over and the bytes
\* not yet read are, in this order, the bytes the child wrote; a pass that
\* finds no valid byte at the start of the carry-over with the bytes it read
\* passes nothing on and keeps all of them in the carry-over.
C31_BytesConserved ==
    /\ [](Encode(dispatched) \o reader[1].incomplete_utf8
             \o Flatten(pty[1], Len(pty[1])) = child_out)
    /\ [][LET before == Flatten(pty[1], Len(pty[1]))
              after == Flatten(pty'[1], Len(pty'[1]))
              all == reader[1].incomplete_utf8
                         \o SubSeq(before, 1, Len(before) - Len(after))
          IN  (last_pass' # last_pass /\ valid_up_to(all) = 0)
                  => (/\ dispatched' = dispatched
                      /\ reader'[1].incomplete_utf8 = all)]_vars

\* Text was passed on, then came a byte that is valid nowhere and more bytes
\* after it: the last pass passed nothing on and the carry-over holds them.
C31_Witness ==
    /\ dispatched # <<>>
    /\ Len(reader[1].incomplete_utf8) >= 2
    /\ reader[1].incomplete_utf8[1] = 255
    /\ last_pass.text = <<>>
    /\ last_pass.carry # <<>>
    /\ pty[1] = <<>>

(* Properties of the output passed to stdout (StripSpec). *)
\* C32: with remove_control_characters_from_stdout set, a pass prints
\* remove_control_characters of the text it passes on; what was printed up
\* to a pass equals remove_control_characters of the whole text passed on up
\* to it.  Stated for one pass: the stripped text so far, followed by what
\* the pass prints, is the stripped text after the pass.
C32_PrintedAsStrippedWhole ==
    [][dispatched' # dispatched =>
          remove_control_characters(dispatched')
              = remove_control_characters(dispatched)
                    \o remove_control_characters(last_pass'.text)]_vars

(* Properties of the restart loop (RestartSpec). *)
\* C33: with continue_on_crash set, the evaluation of a failure status with
\* the sentinel flag unset leads back to Start whatever the number of the
\* attempt; the run ends with an exit code only in the evaluation of status
\* 0, of a failure with the sentinel flag set, or of a failure with
\* continue_on_crash unset.  A child that has exited with status 0, or with
\* the sentinel flag set, is followed by the end of the run.
C33_NoAttemptLimit ==
    /\ [][/\ (/\ Evaluated
              /\ child[attempt].code # 0
              /\ continue_on_crash
              /\ ~error_no_conversation)
             => pc' = "start"
          /\ (pc # "done" /\ pc' = "done")
             => (/\ Evaluated
                 /\ \/ child[attempt].code = 0
                    \/ error_no_conversation
                    \/ ~continue_on_crash)]_vars
    /\ (/\ pc = "wait"
        /\ child[attempt].st = "exited"
        /\ (child[attempt].code = 0 \/ error_no_conversation))
           ~> (pc = "done")

\* Every attempt the bound allows has failed, and the supervisor is at the
\* head of its loop again.
C33_Witness ==
    /\ continue_on_crash
    /\ ~error_no_conversation
    /\ attempt = MaxEvents
    /\ evals = MaxEvents
    /\ pc = "start"
    /\ exit_code = None

=============================================================================
